---- MODULE Spec2Model ----
(***************************************************************************)
(* A model of datasci_tool: the JSON-backed LocalVectorStore               *)
(* (vector_store.py) and the ResearchPipeline that drives it (pipeline.py, *)
(* research_agent.py, embeddings.py, summary.py).                          *)
(*                                                                         *)
(* Embedding components are integers in units of 1/5, so <<4, 1, 0>>       *)
(* stands for [0.8, 0.2, 0.0].  A cosine similarity is kept exactly, as    *)
(* the pair (num, den2) standing for num / sqrt(den2); on the vectors of   *)
(* Embeddings the order of these exact values is the order of the floats   *)
(* the Python code computes.                                               *)
(***************************************************************************)
EXTENDS Integers, Sequences, FiniteSets, TLC

VARIABLES
    file,              \* the persistence file: [exists, payload]
    documents,         \* LocalVectorStore._documents
    vector_dimension,  \* LocalVectorStore.vector_dimension
    last,              \* the last call on the store and how it ended
    config,            \* PipelineConfig: similarity_top_k, summary_model set or not
    pc,                \* the step ResearchPipeline.run is at ("idle": not running)
    snippets,          \* run's snippets
    staged,            \* run's documents, built and not yet added
    query_embedding,   \* run's query_embedding
    similar_documents, \* run's similar_documents
    calls,             \* the calls the current run has made, in order
    at_start,          \* the store as it was when the current run began
    output,            \* how the last run ended and what it returned
    other              \* _documents of a second LocalVectorStore on the same path

storevars == <<file, documents, vector_dimension, last>>
runvars == <<config, pc, snippets, staged, query_embedding, similar_documents,
             calls, at_start, output>>
vars == <<storevars, runvars, other>>

----------------------------------------------------------------------------
(* Bounds of the model *)

\* the store takes no further document once it holds this many
MaxDocs == 3
\* the longest batch handed to add
MaxBatch == 2

----------------------------------------------------------------------------
(* Inputs *)

E100 == <<5, 0, 0>>
E010 == <<0, 5, 0>>
E820 == <<4, 1, 0>>
EZero == <<0, 0, 0>>
ENeg == <<-5, 0, 0>>
EShort == <<5, 0>>

Embeddings == {E100, E010, E820, EZero, ENeg, EShort}

\* the dimensions a store is constructed with
Dimensions == {2, 3}

\* a metadata mapping is a set of <<key, value>> pairs
StoredDocument(id, text, metadata, embedding) ==
    [document_id |-> id, text |-> text, metadata |-> metadata,
     embedding |-> embedding]

DocA == StoredDocument("a", "text a", {<<"title", "A">>, <<"url", "a">>}, E100)
DocB == StoredDocument("b", "text b", {}, E010)
DocC == StoredDocument("c", "text c", {<<"title", "C">>}, E820)
DocZ == StoredDocument("a", "text z", {<<"title", "Z">>}, EZero)
DocS == StoredDocument("s", "text s", {<<"title", "S">>}, EShort)

\* the documents callers hand to add
Docs == {DocA, DocB, DocC, DocZ, DocS}

SeqsUpTo(S, n) == UNION {[1..k -> S] : k \in 0..n}

Batches == SeqsUpTo(Docs, MaxBatch)

\* the probes callers hand to query
Probes == {E100, EShort}

\* the values of top_k: negative, zero, and up to more than the store holds
TopKs == (0 - 1)..(MaxDocs + 1)

Min(a, b) == IF a <= b THEN a ELSE b
Max(a, b) == IF a >= b THEN a ELSE b

----------------------------------------------------------------------------
(* Persistence: _save and _load *)

NoFile == [exists |-> FALSE, payload |-> [documents |-> <<>>]]

\* payload of _save: one JSON object per document held, in order
_save(docs) ==
    [exists |-> TRUE,
     payload |-> [documents |->
        [i \in 1..Len(docs) |->
            [document_id |-> docs[i].document_id,
             text |-> docs[i].text,
             metadata |-> docs[i].metadata,
             embedding |-> docs[i].embedding]]]]

\* the metadata of an item, were _load not to read it
ItemMetadata_not_read(item) == {}

\* item.get("metadata", {})
ItemMetadata(item) ==
    IF "metadata" \in DOMAIN item THEN item.metadata ELSE {}

\* _load: the documents of the payload, embedding lengths not validated
_load(f) ==
    [i \in 1..Len(f.payload.documents) |->
        StoredDocument(f.payload.documents[i].document_id,
                       f.payload.documents[i].text,
                       ItemMetadata(f.payload.documents[i]),
                       f.payload.documents[i].embedding)]

\* __init__: the documents after construction on file f
Construct(f) == IF f.exists THEN _load(f) ELSE <<>>

----------------------------------------------------------------------------
(* add *)

\* indexes of the batch's documents whose embedding has the wrong length
Offending(batch, dim) == {i \in 1..Len(batch) : Len(batch[i].embedding) # dim}

FirstOffending(batch, dim) ==
    CHOOSE i \in Offending(batch, dim) : \A j \in Offending(batch, dim) : i <= j

\* add, were _save to write only the documents of the batch
add_saving_the_batch_only(docs, f, dim, batch) ==
    IF batch = <<>>
    THEN [documents |-> docs, file |-> f, status |-> "ok", errid |-> "",
          wrote |-> FALSE]
    ELSE IF Offending(batch, dim) # {}
    THEN [documents |-> docs, file |-> f, status |-> "DimensionMismatch",
          errid |-> batch[FirstOffending(batch, dim)].document_id,
          wrote |-> FALSE]
    ELSE [documents |-> docs \o batch, file |-> _save(batch),
          status |-> "ok", errid |-> "", wrote |-> TRUE]

\* add, were each document checked as it is appended: the documents before
\* the first offending one are kept
add_checking_while_appending(docs, f, dim, batch) ==
    IF batch = <<>>
    THEN [documents |-> docs, file |-> f, status |-> "ok", errid |-> "",
          wrote |-> FALSE]
    ELSE IF Offending(batch, dim) # {}
    THEN [documents |-> docs \o SubSeq(batch, 1, FirstOffending(batch, dim) - 1),
          file |-> f, status |-> "DimensionMismatch",
          errid |-> batch[FirstOffending(batch, dim)].document_id,
          wrote |-> FALSE]
    ELSE [documents |-> docs \o batch, file |-> _save(docs \o batch),
          status |-> "ok", errid |-> "", wrote |-> TRUE]

\* add, without the early return on an empty batch
add_without_early_return(docs, f, dim, batch) ==
    IF Offending(batch, dim) # {}
    THEN [documents |-> docs, file |-> f, status |-> "DimensionMismatch",
          errid |-> batch[FirstOffending(batch, dim)].document_id,
          wrote |-> FALSE]
    ELSE [documents |-> docs \o batch, file |-> _save(docs \o batch),
          status |-> "ok", errid |-> "", wrote |-> TRUE]

\* add, without the check of the embeddings' lengths
add_without_validation(docs, f, dim, batch) ==
    IF batch = <<>>
    THEN [documents |-> docs, file |-> f, status |-> "ok", errid |-> "",
          wrote |-> FALSE]
    ELSE [documents |-> docs \o batch, file |-> _save(docs \o batch),
          status |-> "ok", errid |-> "", wrote |-> TRUE]

\* add, were a document of the batch to replace the stored ones of its id
add_replacing_same_id(docs, f, dim, batch) ==
    IF batch = <<>>
    THEN [documents |-> docs, file |-> f, status |-> "ok", errid |-> "",
          wrote |-> FALSE]
    ELSE IF Offending(batch, dim) # {}
    THEN [documents |-> docs, file |-> f, status |-> "DimensionMismatch",
          errid |-> batch[FirstOffending(batch, dim)].document_id,
          wrote |-> FALSE]
    ELSE LET Other(doc) == \A i \in 1..Len(batch) :
                                batch[i].document_id # doc.document_id
             kept == SelectSeq(docs, Other)
         IN [documents |-> kept \o batch, file |-> _save(kept \o batch),
             status |-> "ok", errid |-> "", wrote |-> TRUE]

\* add(documents): the store after the call, how the call ended, the
\* document the error names, and whether the call wrote the file
add(docs, f, dim, batch) ==
    IF batch = <<>>
    THEN [documents |-> docs, file |-> f, status |-> "ok", errid |-> "",
          wrote |-> FALSE]
    ELSE IF Offending(batch, dim) # {}
    THEN [documents |-> docs, file |-> f, status |-> "DimensionMismatch",
          errid |-> batch[FirstOffending(batch, dim)].document_id,
          wrote |-> FALSE]
    ELSE [documents |-> docs \o batch, file |-> _save(docs \o batch),
          status |-> "ok", errid |-> "", wrote |-> TRUE]

----------------------------------------------------------------------------
(* query *)

Sum(a, n) == LET S[i \in 0..n] == IF i = 0 THEN 0 ELSE S[i - 1] + a[i] IN S[n]

\* sum(x * y for x, y in zip(a, b)): zip stops at the shorter vector
Dot(a, b) ==
    LET n == Min(Len(a), Len(b))
    IN Sum([i \in 1..n |-> a[i] * b[i]], n)

SumSq(a) == Sum([i \in 1..Len(a) |-> a[i] * a[i]], Len(a))

\* the similarity without the case for a zero norm: a division by zero
\* shows as den2 = 0
_cosine_similarity_without_zero_case(a, b) ==
    [num |-> Dot(a, b), den2 |-> SumSq(a) * SumSq(b)]

\* the similarity, were a zero norm to give a value below every cosine
_cosine_similarity_least_for_zero_norm(a, b) ==
    IF SumSq(a) = 0 \/ SumSq(b) = 0
    THEN [num |-> 0 - 2, den2 |-> 1]
    ELSE [num |-> Dot(a, b), den2 |-> SumSq(a) * SumSq(b)]

\* the similarity num / sqrt(den2); 0.0 when either norm is zero
_cosine_similarity(a, b) ==
    IF SumSq(a) = 0 \/ SumSq(b) = 0
    THEN [num |-> 0, den2 |-> 1]
    ELSE [num |-> Dot(a, b), den2 |-> SumSq(a) * SumSq(b)]

SignedSq(x) == IF x >= 0 THEN x * x ELSE 0 - (x * x)

\* s > t for similarities s and t
SimGreater(s, t) == SignedSq(s.num) * t.den2 > SignedSq(t.num) * s.den2

\* a sort that puts an item before the items of equal key
InsertDescending_before_equal(sorted, x) ==
    LET n == Cardinality({i \in 1..Len(sorted) : SimGreater(sorted[i][1], x[1])})
    IN SubSeq(sorted, 1, n) \o <<x>> \o SubSeq(sorted, n + 1, Len(sorted))

\* the sort without reverse=True: ascending keys
InsertAscending(sorted, x) ==
    LET n == Cardinality({i \in 1..Len(sorted) : ~SimGreater(sorted[i][1], x[1])})
    IN SubSeq(sorted, 1, n) \o <<x>> \o SubSeq(sorted, n + 1, Len(sorted))

SortAscending(scored) ==
    LET S[i \in 0..Len(scored)] ==
            IF i = 0 THEN <<>> ELSE InsertAscending(S[i - 1], scored[i])
    IN S[Len(scored)]

\* scored.sort(key=item[0], reverse=True): a stable sort by descending key;
\* item x goes after every item whose key is not smaller than its own
InsertDescending(sorted, x) ==
    LET n == Cardinality({i \in 1..Len(sorted) : ~SimGreater(x[1], sorted[i][1])})
    IN SubSeq(sorted, 1, n) \o <<x>> \o SubSeq(sorted, n + 1, Len(sorted))

SortDescending(scored) ==
    LET S[i \in 0..Len(scored)] ==
            IF i = 0 THEN <<>> ELSE InsertDescending(S[i - 1], scored[i])
    IN S[Len(scored)]

\* seq[:k] of Python: a negative k counts from the end
Slice(seq, k) ==
    IF k >= 0 THEN SubSeq(seq, 1, Min(k, Len(seq)))
    ELSE SubSeq(seq, 1, Max(Len(seq) + k, 0))

\* query(embedding, top_k): how the call ended and what it returned
query(docs, dim, embedding, top_k) ==
    IF docs = <<>>
    THEN [status |-> "ok", result |-> <<>>]
    ELSE IF Len(embedding) # dim
    THEN [status |-> "DimensionMismatch", result |-> <<>>]
    ELSE LET scored == [i \in 1..Len(docs) |->
                           <<_cosine_similarity(docs[i].embedding, embedding),
                             docs[i]>>]
             ranked == Slice(SortDescending(scored), top_k)
         IN [status |-> "ok",
             result |-> [i \in 1..Len(ranked) |-> ranked[i][2]]]

----------------------------------------------------------------------------
(* The research adapter: research and _parse_json_array *)

\* a JSON value; kind "invalid" is a text json.loads rejects
Json(kind, str, items, members) ==
    [kind |-> kind, str |-> str, items |-> items, members |-> members]

JInvalid == Json("invalid", "not json", <<>>, {})
JNull == Json("null", "", <<>>, {})
JNumber == Json("number", "5", <<>>, {})
\* a string, with its characters as items
JString(chars) == Json("string", "", chars, {})
JArray(items) == Json("array", "", items, {})
\* an object: a set of <<key, value>> members
JObject(members) == Json("object", "", <<>>, members)

JChar == Json("string", "x", <<>>, {})

ObjA == JObject({<<"title", "Article A">>, <<"url", "https://example.com/a">>,
                 <<"content", "Detailed notes about article A">>,
                 <<"summary", "Key findings from A">>})
\* no url, the content under its alias, no summary
ObjB == JObject({<<"title", "Article B">>, <<"body", "Insights from article B">>})
ObjNoTitle == JObject({<<"url", "https://example.com/c">>})

\* the texts accumulated from the research service
ResearchTexts ==
    {JInvalid, JNull, JNumber, JString(<<>>), JString(<<JChar, JChar>>),
     JObject({}), JObject({<<"title", "Article A">>}),
     JArray(<<>>), JArray(<<ObjA>>), JArray(<<ObjA, ObjB>>),
     JArray(<<ObjA, ObjNoTitle>>), JArray(<<JNumber>>)}

ResearchResponses ==
    {[status |-> "TransportError", text |-> JInvalid]}
        \cup {[status |-> "ok", text |-> t] : t \in ResearchTexts}

ResearchSnippet(title, url, content, summary) ==
    [title |-> title, url |-> url, content |-> content, summary |-> summary]

HasKey(members, key) == \E m \in members : m[1] = key

\* item.get(key, default)
Get(members, key, default) ==
    IF HasKey(members, key)
    THEN (CHOOSE m \in members : m[1] = key)[2]
    ELSE default

\* what "for item in raw" walks through: the elements of an array, the keys
\* of an object, the characters of a string
Elements(raw) ==
    IF raw.kind = "array" \/ raw.kind = "string" THEN raw.items
    ELSE LET keys == {m[1] : m \in raw.members}
             S[n \in 0..Cardinality(keys)] ==
                 IF n = 0 THEN <<>> ELSE Append(S[n - 1], JChar)
         IN S[Cardinality(keys)]

\* how building the snippet of one element ends: item["title"] on an object
\* without that key is the KeyError the code turns into its RuntimeError; on
\* anything but an object it is a TypeError the code does not catch
ItemStatus(item) ==
    IF item.kind # "object" THEN "TypeError"
    ELSE IF ~HasKey(item.members, "title") THEN "MalformedResponse"
    ELSE "ok"

ItemSnippet(item) ==
    ResearchSnippet(Get(item.members, "title", ""),
                    Get(item.members, "url", ""),
                    Get(item.members, "content", Get(item.members, "body", "")),
                    Get(item.members, "summary", ""))

\* _parse_json_array(text): the snippets, or the error of the first element
\* that has one
_parse_json_array(text) ==
    IF text.kind = "invalid"
    THEN [status |-> "MalformedResponse", snippets |-> <<>>]
    ELSE IF text.kind \notin {"array", "object", "string"}
    THEN [status |-> "TypeError", snippets |-> <<>>]
    ELSE LET items == Elements(text)
             bad == {i \in 1..Len(items) : ItemStatus(items[i]) # "ok"}
         IN IF bad # {}
            THEN [status |-> ItemStatus(items[CHOOSE i \in bad :
                                                  \A j \in bad : i <= j]),
                  snippets |-> <<>>]
            ELSE [status |-> "ok",
                  snippets |-> [i \in 1..Len(items) |-> ItemSnippet(items[i])]]

\* research(query): the stream either fails or ends with a text to parse
research(response) ==
    IF response.status # "ok"
    THEN [status |-> response.status, snippets |-> <<>>]
    ELSE _parse_json_array(response.text)

----------------------------------------------------------------------------
(* The embedding adapter *)

\* the vectors the embedding service answers with, for snippet contents
\* and for the query
SnippetVectors == {E100, E010, EShort}
QueryVectors == {E820, EShort}

\* the answers of the embedding service: a failure, or up to n vectors
EmbedResponses(vectors, n) ==
    {[status |-> "TransportError", vectors |-> <<>>]}
        \cup {[status |-> "ok", vectors |-> v] : v \in SeqsUpTo(vectors, n)}

\* embed(texts): no request for an empty input
embed(inputs, response) ==
    IF inputs = <<>>
    THEN [status |-> "ok", embeddings |-> <<>>, called |-> FALSE]
    ELSE IF response.status # "ok"
    THEN [status |-> response.status, embeddings |-> <<>>, called |-> TRUE]
    ELSE [status |-> "ok", embeddings |-> response.vectors, called |-> TRUE]

----------------------------------------------------------------------------
(* The orchestrator: what run computes between its calls *)

\* snippet.url or snippet.title
DocumentId(snippet) == IF snippet.url # "" THEN snippet.url ELSE snippet.title

\* the StoredDocument run builds from a snippet and its embedding
BuildDocument(snippet, embedding) ==
    StoredDocument(DocumentId(snippet), snippet.content,
                   {<<"title", snippet.title>>, <<"url", snippet.url>>,
                    <<"summary", snippet.summary>>},
                   embedding)

\* the loop over zip without strict=True: it stops at the shorter sequence
BuildDocuments_without_strict(snips, embeddings) ==
    [status |-> "ok",
     documents |-> [i \in 1..Min(Len(snips), Len(embeddings)) |->
                       BuildDocument(snips[i], embeddings[i])]]

\* zip(snippets, embeddings, strict=True): a ValueError when the lengths differ
BuildDocuments(snips, embeddings) ==
    IF Len(snips) # Len(embeddings)
    THEN [status |-> "LengthMismatch", documents |-> <<>>]
    ELSE [status |-> "ok",
          documents |-> [i \in 1..Len(snips) |->
                            BuildDocument(snips[i], embeddings[i])]]

\* snippet.summary or snippet.content[:200]; the contents of the model are
\* shorter than 200 characters
BulletBody(snippet) ==
    IF snippet.summary # "" THEN snippet.summary ELSE snippet.content

\* one "{title}: {summary or content}" line per snippet, as <<title, body>>
BulletPoints(snips) ==
    [i \in 1..Len(snips) |-> <<snips[i].title, BulletBody(snips[i])>>]

Summary(kind, text, lines) == [kind |-> kind, text |-> text, lines |-> lines]

NoFindings == "No research findings were produced."

\* the answers of the summarisation service
SummaryResponses ==
    {[status |-> "TransportError", text |-> ""],
     [status |-> "ok", text |-> "final summary"]}

\* _build_summary without its case for no bullet points
_build_summary_without_empty_case(snips, generator, response) ==
    IF ~generator
    THEN [status |-> "ok", summary |-> Summary("joined", "", BulletPoints(snips)),
          called |-> FALSE]
    ELSE IF response.status # "ok"
    THEN [status |-> response.status, summary |-> Summary("none", "", <<>>),
          called |-> TRUE]
    ELSE [status |-> "ok", summary |-> Summary("generator", response.text, <<>>),
          called |-> TRUE]

\* _build_summary(query, snippets): how it ended, the summary, and whether
\* the summary generator was called
_build_summary(snips, generator, response) ==
    IF BulletPoints(snips) = <<>>
    THEN [status |-> "ok", summary |-> Summary("fixed", NoFindings, <<>>),
          called |-> FALSE]
    ELSE IF ~generator
    THEN [status |-> "ok", summary |-> Summary("joined", "", BulletPoints(snips)),
          called |-> FALSE]
    ELSE IF response.status # "ok"
    THEN [status |-> response.status, summary |-> Summary("none", "", <<>>),
          called |-> TRUE]
    ELSE [status |-> "ok", summary |-> Summary("generator", response.text, <<>>),
          called |-> TRUE]

----------------------------------------------------------------------------
(* State *)

Call(op, batch, probe, k, status, errid, wrote, result) ==
    [op |-> op, batch |-> batch, probe |-> probe, top_k |-> k,
     status |-> status, errid |-> errid, wrote |-> wrote, result |-> result]

NoCall == Call("init", <<>>, <<>>, 0, "ok", "", FALSE, <<>>)

\* what a run keeps of the moment it began: the store, the kind of text the
\* research service then answered with ("none": it failed), and whether the
\* run is a retry of the run before
AtStart(docs, f, text, retry) ==
    [documents |-> docs, file |-> f, text |-> text, retry |-> retry]

Output(status, step, snips, summary, similar) ==
    [status |-> status, step |-> step, snippets |-> snips,
     summary |-> summary, similar_documents |-> similar]

NoOutput == Output("none", "", <<>>, Summary("none", "", <<>>), <<>>)

\* the values of VectorStoreConfig.similarity_top_k
TopKConfigs == {1, 2}

Configs == [similarity_top_k : TopKConfigs, summary_generator : BOOLEAN]

\* the dimension the pipeline's store is configured with
PipelineDimension == 3

Idle ==
    /\ pc = "idle"
    /\ snippets = <<>>
    /\ staged = <<>>
    /\ query_embedding = <<>>
    /\ similar_documents = <<>>
    /\ calls = <<>>
    /\ at_start = AtStart(<<>>, NoFile, "none", FALSE)
    /\ output = NoOutput

\* a LocalVectorStore constructed on a path that holds no file
Init ==
    /\ file = NoFile
    /\ vector_dimension \in Dimensions
    /\ documents = Construct(NoFile)
    /\ last = NoCall
    /\ config = [similarity_top_k |-> 2, summary_generator |-> TRUE]
    /\ other = Construct(NoFile)
    /\ Idle

\* a ResearchPipeline constructed on a path that holds no file
InitPipeline ==
    /\ file = NoFile
    /\ vector_dimension = PipelineDimension
    /\ documents = Construct(NoFile)
    /\ last = NoCall
    /\ config \in Configs
    /\ other = Construct(NoFile)
    /\ Idle

----------------------------------------------------------------------------
(* The store's operations, called directly *)

\* LocalVectorStore.add(batch)
Add(batch) ==
    /\ pc = "idle"
    /\ Len(documents) + Len(batch) <= MaxDocs
    /\ LET r == add(documents, file, vector_dimension, batch)
       IN /\ documents' = r.documents
          /\ file' = r.file
          /\ last' = Call("add", batch, <<>>, 0, r.status, r.errid, r.wrote, <<>>)
    /\ UNCHANGED <<vector_dimension, runvars, other>>

\* query, were it to sort the store's own list instead of a list of its own
Query_sorting_the_store(probe, k) ==
    /\ pc = "idle"
    /\ LET r == query(documents, vector_dimension, probe, k)
           all == query(documents, vector_dimension, probe, Len(documents))
       IN /\ last' = Call("query", <<>>, probe, k, r.status, "", FALSE,
                          r.result)
          /\ documents' = IF r.status = "ok" THEN all.result ELSE documents
    /\ UNCHANGED <<file, vector_dimension, runvars, other>>

\* LocalVectorStore.query(probe, k)
Query(probe, k) ==
    /\ pc = "idle"
    /\ LET r == query(documents, vector_dimension, probe, k)
       IN last' = Call("query", <<>>, probe, k, r.status, "", FALSE, r.result)
    /\ UNCHANGED <<file, documents, vector_dimension, runvars, other>>

\* a new LocalVectorStore(persist_path, dim) on the same path
Reopen(dim) ==
    /\ pc = "idle"
    /\ vector_dimension' = dim
    /\ documents' = Construct(file)
    /\ last' = Call("open", <<>>, <<>>, 0, "ok", "", FALSE, <<>>)
    /\ UNCHANGED <<file, runvars, other>>

Next ==
    \/ \E batch \in Batches : Add(batch)
    \/ \E probe \in Probes, k \in TopKs : Query(probe, k)
    \/ \E dim \in Dimensions : Reopen(dim)

Spec == Init /\ [][Next]_vars

----------------------------------------------------------------------------
(* The store with embeddings of zero norm and of negative similarity *)

DocN == StoredDocument("n", "text n", {}, ENeg)

\* documents whose similarity to E100 is 1, 0 by the zero-norm case, -1, and
\* 0 by a right angle
SimilarityDocs == {DocA, DocZ, DocN, DocB}

SimilarityProbes == {E100, EZero}

SimilarityTopKs == {1, MaxDocs}

\* a LocalVectorStore of dimension 3 constructed on a path that holds no file
InitSimilarity ==
    /\ file = NoFile
    /\ vector_dimension = Len(EZero)
    /\ documents = Construct(NoFile)
    /\ last = NoCall
    /\ config = [similarity_top_k |-> 2, summary_generator |-> TRUE]
    /\ other = Construct(NoFile)
    /\ Idle

NextSimilarity ==
    \/ \E doc \in SimilarityDocs : Add(<<doc>>)
    \/ \E probe \in SimilarityProbes, k \in SimilarityTopKs : Query(probe, k)

SpecSimilarity == InitSimilarity /\ [][NextSimilarity]_vars

----------------------------------------------------------------------------
(* Two LocalVectorStore instances on one persistence file *)

WriterDocs == {DocA, DocB}

\* add(batch) on the second instance, were it to read the file again first
AddOther_after_reload(batch) ==
    /\ pc = "idle"
    /\ Len(Construct(file)) + Len(batch) <= MaxDocs
    /\ LET r == add(Construct(file), file, vector_dimension, batch)
       IN /\ other' = r.documents
          /\ file' = r.file
          /\ last' = Call("other.add", batch, <<>>, 0, r.status, r.errid,
                          r.wrote, <<>>)
    /\ UNCHANGED <<documents, vector_dimension, runvars>>

\* LocalVectorStore.add(batch) on the second instance
AddOther(batch) ==
    /\ pc = "idle"
    /\ Len(other) + Len(batch) <= MaxDocs
    /\ LET r == add(other, file, vector_dimension, batch)
       IN /\ other' = r.documents
          /\ file' = r.file
          /\ last' = Call("other.add", batch, <<>>, 0, r.status, r.errid,
                          r.wrote, <<>>)
    /\ UNCHANGED <<documents, vector_dimension, runvars>>

\* the second instance is constructed anew on the path
OpenOther ==
    /\ pc = "idle"
    /\ other' = Construct(file)
    /\ last' = Call("other.open", <<>>, <<>>, 0, "ok", "", FALSE, <<>>)
    /\ UNCHANGED <<file, documents, vector_dimension, runvars>>

NextWriters ==
    \/ \E doc \in WriterDocs : Add(<<doc>>)
    \/ \E doc \in WriterDocs : AddOther(<<doc>>)
    \/ Reopen(vector_dimension)
    \/ OpenOther

\* both instances constructed on a path that holds no file
SpecWriters == InitSimilarity /\ [][NextWriters]_vars

----------------------------------------------------------------------------
(* ResearchPipeline.run, one action per call it makes *)

\* run ends with an error raised at step
Fail(status, step) ==
    /\ pc' = "idle"
    /\ output' = Output(status, step, <<>>, Summary("none", "", <<>>), <<>>)
    /\ snippets' = <<>>
    /\ staged' = <<>>
    /\ query_embedding' = <<>>
    /\ similar_documents' = <<>>

\* run is called again after a run that failed after its add, and research
\* gives the snippets it gave then: the documents that run appended are the
\* documents of these snippets
Retries(snips) ==
    /\ output.status \notin {"none", "ok"}
    /\ output.step \in {"embed_query", "query", "summary"}
    /\ snips # <<>>
    /\ Len(documents) = Len(at_start.documents) + Len(snips)
    /\ \A i \in 1..Len(snips) :
            LET doc == documents[Len(at_start.documents) + i]
            IN doc = BuildDocument(snips[i], doc.embedding)

\* step 1: snippets = self.research_agent.research(query)
RunResearch(response) ==
    /\ pc = "idle"
    /\ LET r == research(response)
       IN /\ Len(documents) + Len(r.snippets) <= MaxDocs
          /\ calls' = <<"research">>
          /\ at_start' = AtStart(documents, file,
                                 IF response.status = "ok"
                                 THEN response.text.kind ELSE "none",
                                 r.status = "ok" /\ Retries(r.snippets))
          /\ IF r.status # "ok"
             THEN Fail(r.status, "research")
             ELSE /\ pc' = "embed"
                  /\ snippets' = r.snippets
                  /\ output' = NoOutput
                  /\ UNCHANGED <<staged, query_embedding, similar_documents>>
    /\ UNCHANGED <<storevars, config, other>>

\* steps 2 and 3: embed the snippets' contents, build the documents
RunEmbed(response) ==
    /\ pc = "embed"
    /\ LET e == embed([i \in 1..Len(snippets) |-> snippets[i].content], response)
           b == BuildDocuments(snippets, e.embeddings)
       IN /\ calls' = Append(calls, "embed_snippets")
          /\ IF e.status # "ok"
             THEN Fail(e.status, "embed_snippets")
             ELSE IF b.status # "ok"
             THEN Fail(b.status, "embed_snippets")
             ELSE /\ pc' = "add"
                  /\ staged' = b.documents
                  /\ UNCHANGED <<snippets, query_embedding, similar_documents,
                                 output>>
    /\ UNCHANGED <<storevars, config, other, at_start>>

\* step 4, were run to go back to embedding the snippets after a successful add
RunAdd_then_embedding_again ==
    /\ pc = "add"
    /\ LET r == add(documents, file, vector_dimension, staged)
       IN /\ documents' = r.documents
          /\ file' = r.file
          /\ last' = Call("add", staged, <<>>, 0, r.status, r.errid, r.wrote, <<>>)
          /\ calls' = Append(calls, "add")
          /\ IF r.status # "ok"
             THEN Fail(r.status, "add")
             ELSE /\ pc' = "embed"
                  /\ staged' = <<>>
                  /\ UNCHANGED <<snippets, query_embedding, similar_documents,
                                 output>>
    /\ UNCHANGED <<vector_dimension, config, other, at_start>>

\* step 4: self.vector_store.add(documents)
RunAdd ==
    /\ pc = "add"
    /\ LET r == add(documents, file, vector_dimension, staged)
       IN /\ documents' = r.documents
          /\ file' = r.file
          /\ last' = Call("add", staged, <<>>, 0, r.status, r.errid, r.wrote, <<>>)
          /\ calls' = Append(calls, "add")
          /\ IF r.status # "ok"
             THEN Fail(r.status, "add")
             ELSE /\ pc' = "embed_query"
                  /\ staged' = <<>>
                  /\ UNCHANGED <<snippets, query_embedding, similar_documents,
                                 output>>
    /\ UNCHANGED <<vector_dimension, config, other, at_start>>

\* step 5, were a failure to take this run's documents out of the store
RunEmbedQuery_rolling_back(response) ==
    /\ pc = "embed_query"
    /\ LET e == embed(<<"query">>, response)
           failed == e.status # "ok" \/ e.embeddings = <<>>
       IN /\ calls' = Append(calls, "embed_query")
          /\ documents' = IF failed THEN at_start.documents ELSE documents
          /\ file' = IF failed THEN at_start.file ELSE file
          /\ IF e.status # "ok"
             THEN Fail(e.status, "embed_query")
             ELSE IF e.embeddings = <<>>
             THEN Fail("IndexError", "embed_query")
             ELSE /\ pc' = "query"
                  /\ query_embedding' = e.embeddings[1]
                  /\ UNCHANGED <<snippets, staged, similar_documents, output>>
    /\ UNCHANGED <<vector_dimension, last, config, other, at_start>>

\* step 5: query_embedding = self.embedding_service.embed([query])[0]
RunEmbedQuery(response) ==
    /\ pc = "embed_query"
    /\ LET e == embed(<<"query">>, response)
       IN /\ calls' = Append(calls, "embed_query")
          /\ IF e.status # "ok"
             THEN Fail(e.status, "embed_query")
             ELSE IF e.embeddings = <<>>
             THEN Fail("IndexError", "embed_query")
             ELSE /\ pc' = "query"
                  /\ query_embedding' = e.embeddings[1]
                  /\ UNCHANGED <<snippets, staged, similar_documents, output>>
    /\ UNCHANGED <<storevars, config, other, at_start>>

\* step 6, were the query to run over the documents held before this run's add
RunQuery_over_store_before_add ==
    /\ pc = "query"
    /\ LET r == query(at_start.documents, vector_dimension, query_embedding,
                      config.similarity_top_k)
       IN /\ last' = Call("query", <<>>, query_embedding,
                          config.similarity_top_k, r.status, "", FALSE,
                          r.result)
          /\ calls' = Append(calls, "query")
          /\ IF r.status # "ok"
             THEN Fail(r.status, "query")
             ELSE /\ pc' = "summary"
                  /\ similar_documents' = r.result
                  /\ UNCHANGED <<snippets, staged, query_embedding, output>>
    /\ UNCHANGED <<file, documents, vector_dimension, config, other, at_start>>

\* step 6: similar_documents = self.vector_store.query(query_embedding, top_k)
RunQuery ==
    /\ pc = "query"
    /\ LET r == query(documents, vector_dimension, query_embedding,
                      config.similarity_top_k)
       IN /\ last' = Call("query", <<>>, query_embedding,
                          config.similarity_top_k, r.status, "", FALSE,
                          r.result)
          /\ calls' = Append(calls, "query")
          /\ IF r.status # "ok"
             THEN Fail(r.status, "query")
             ELSE /\ pc' = "summary"
                  /\ similar_documents' = r.result
                  /\ UNCHANGED <<snippets, staged, query_embedding, output>>
    /\ UNCHANGED <<file, documents, vector_dimension, config, other, at_start>>

\* steps 7 and 8: summary = self._build_summary(query, snippets); return
RunSummary(response) ==
    /\ pc = "summary"
    /\ LET r == _build_summary(snippets, config.summary_generator, response)
       IN /\ calls' = IF r.called
                      THEN calls \o <<"build_summary", "summarize">>
                      ELSE Append(calls, "build_summary")
          /\ IF r.status # "ok"
             THEN Fail(r.status, "summary")
             ELSE /\ pc' = "idle"
                  /\ output' = Output("ok", "", snippets, r.summary,
                                      similar_documents)
                  /\ snippets' = <<>>
                  /\ staged' = <<>>
                  /\ query_embedding' = <<>>
                  /\ similar_documents' = <<>>
    /\ UNCHANGED <<storevars, config, other, at_start>>

\* the process ends and a new ResearchPipeline is constructed on the same path
Restart ==
    /\ pc = "idle"
    /\ documents' = Construct(file)
    /\ last' = Call("open", <<>>, <<>>, 0, "ok", "", FALSE, <<>>)
    /\ calls' = <<>>
    /\ at_start' = AtStart(<<>>, NoFile, "none", FALSE)
    /\ output' = NoOutput
    /\ UNCHANGED <<file, vector_dimension, config, other, pc, snippets, staged,
                   query_embedding, similar_documents>>

NextPipeline ==
    \/ \E response \in ResearchResponses : RunResearch(response)
    \/ \E response \in EmbedResponses(SnippetVectors, MaxBatch) :
            RunEmbed(response)
    \/ RunAdd
    \/ \E response \in EmbedResponses(QueryVectors, 1) :
            RunEmbedQuery(response)
    \/ RunQuery
    \/ \E response \in SummaryResponses : RunSummary(response)
    \/ Restart

SpecPipeline == InitPipeline /\ [][NextPipeline]_vars

----------------------------------------------------------------------------
(* Properties of the store *)

Range(seq) == {seq[i] : i \in 1..Len(seq)}

\* the file holds one entry per document held, in order, with its four fields
FileHoldsDocuments ==
    /\ file.exists
    /\ Len(file.payload.documents) = Len(documents)
    /\ \A i \in 1..Len(documents) :
        LET item == file.payload.documents[i]
        IN /\ DOMAIN item = {"document_id", "text", "metadata", "embedding"}
           /\ item.document_id = documents[i].document_id
           /\ item.text = documents[i].text
           /\ item.metadata = documents[i].metadata
           /\ item.embedding = documents[i].embedding

\* C1: write-through.  A successful add of a non-empty batch leaves a file,
\* and whenever there is a file (one exists only once such an add has
\* returned) it holds exactly the in-memory document sequence: every
\* document held, in order, field for field.
WriteThrough ==
    /\ (last.op = "add" /\ last.status = "ok" /\ last.batch # <<>>)
            => (file.exists /\ last.wrote)
    /\ file.exists => FileHoldsDocuments

\* a second successful add has returned: the file must hold old and new
WriteThroughWitness ==
    /\ last.op = "add"
    /\ last.status = "ok"
    /\ last.batch # <<>>
    /\ Len(documents) > Len(last.batch)

\* C2: round trip.  A new LocalVectorStore constructed on the same path with
\* the same dimension loads a document sequence equal to the one held in
\* memory before, field for field and in the same order.
RoundTrip ==
    [][(last'.op = "open" /\ vector_dimension' = vector_dimension)
            => documents' = documents]_vars

\* a store reopened on a file of several documents, with and without metadata
RoundTripWitness ==
    /\ last.op = "open"
    /\ Len(documents) >= 2
    /\ \E i, j \in 1..Len(documents) :
            documents[i].metadata # {} /\ documents[j].metadata = {}
    /\ \A i \in 1..Len(documents) :
            Len(documents[i].embedding) = vector_dimension

WrongLength(doc, dim) == Len(doc.embedding) # dim

\* C3: all-or-nothing add.  An add whose batch holds a document with an
\* embedding of the wrong length, wherever it sits in the batch, fails with
\* the dimension-mismatch error naming the first such document, and changes
\* neither the in-memory sequence nor the file, which it does not write.
AllOrNothingAdd ==
    [][(/\ last'.op = "add"
        /\ \E i \in 1..Len(last'.batch) :
                WrongLength(last'.batch[i], vector_dimension))
            => /\ last'.status = "DimensionMismatch"
               /\ \E i \in 1..Len(last'.batch) :
                    /\ WrongLength(last'.batch[i], vector_dimension)
                    /\ \A j \in 1..(i - 1) :
                            ~WrongLength(last'.batch[j], vector_dimension)
                    /\ last'.errid = last'.batch[i].document_id
               /\ ~last'.wrote
               /\ documents' = documents
               /\ file' = file]_vars

\* an add that failed on the second document of its batch, after a valid one,
\* on a store that holds documents
AllOrNothingAddWitness ==
    /\ last.op = "add"
    /\ last.status = "DimensionMismatch"
    /\ Len(last.batch) >= 2
    /\ ~WrongLength(last.batch[1], vector_dimension)
    /\ WrongLength(last.batch[2], vector_dimension)
    /\ documents # <<>>

\* C4: query fails with the dimension-mismatch error whenever the probe's
\* length differs from vector_dimension, also on a store without documents.
QueryChecksDimension ==
    (last.op = "query" /\ Len(last.probe) # vector_dimension)
        => last.status = "DimensionMismatch"

\* C5: top_k clamping.  With a probe of the right dimension query returns
\* min(top_k, n) documents when top_k > 0 and none when top_k <= 0.
TopKClamping ==
    (last.op = "query" /\ Len(last.probe) = vector_dimension)
        => /\ last.status = "ok"
           /\ Len(last.result) =
                IF last.top_k > 0 THEN Min(last.top_k, Len(documents)) ELSE 0

\* document a of docs ranks before document b: its similarity to the probe is
\* greater, or equal with a stored first
RanksBefore(docs, probe, a, b) ==
    LET sa == _cosine_similarity(docs[a].embedding, probe)
        sb == _cosine_similarity(docs[b].embedding, probe)
    IN SimGreater(sa, sb) \/ (~SimGreater(sb, sa) /\ a < b)

\* result picks documents of docs, each once, in ranking order, and leaves
\* out only documents that rank after all it picked
RankedPrefix(result, docs, probe) ==
    \E idx \in [1..Len(result) -> 1..Len(docs)] :
        /\ \A i \in 1..Len(result) : result[i] = docs[idx[i]]
        /\ \A i, j \in 1..Len(result) :
                i < j => RanksBefore(docs, probe, idx[i], idx[j])
        /\ \A i \in 1..Len(result) :
                \A m \in (1..Len(docs)) \ {idx[j] : j \in 1..Len(result)} :
                    RanksBefore(docs, probe, idx[i], m)

\* C6: ranking.  What query returns is a leading part of the stored documents
\* sorted by descending cosine similarity to the probe, documents of equal
\* similarity in insertion order, so that no document returned has a lower
\* similarity than one left out; for top_k >= 0 it is the first
\* min(top_k, n) of them.
Ranking ==
    (last.op = "query" /\ last.status = "ok" /\ documents # <<>>)
        => /\ RankedPrefix(last.result, documents, last.probe)
           /\ last.top_k >= 0
                => Len(last.result) = Min(last.top_k, Len(documents))

\* a query that returned some documents and left some out, on a store with
\* two different documents of equal similarity to the probe
RankingWitness ==
    /\ last.op = "query"
    /\ last.status = "ok"
    /\ Len(last.result) >= 2
    /\ Len(last.result) < Len(documents)
    /\ \E a, b \in 1..Len(documents) :
        /\ a # b
        /\ documents[a] # documents[b]
        /\ ~SimGreater(_cosine_similarity(documents[a].embedding, last.probe),
                       _cosine_similarity(documents[b].embedding, last.probe))
        /\ ~SimGreater(_cosine_similarity(documents[b].embedding, last.probe),
                       _cosine_similarity(documents[a].embedding, last.probe))
        /\ documents[a] \in Range(last.result)
        /\ documents[b] \in Range(last.result)

\* the store of the example, queried with [1, 0, 0] and top_k = 2
SimilarityExampleCase ==
    /\ vector_dimension = 3
    /\ [i \in 1..Len(documents) |-> documents[i].embedding]
            = <<E100, E010, E820>>
    /\ last.op = "query"
    /\ last.probe = E100
    /\ last.top_k = 2

\* C7 as stated: the query of the example returns the [0.8, 0.2, 0] document
\* first and the [1, 0, 0] document second.
SimilarityExampleAsStated ==
    SimilarityExampleCase
        => /\ last.status = "ok"
           /\ [i \in 1..Len(last.result) |-> last.result[i].embedding]
                = <<E820, E100>>

\* C7, amended: the query of the example returns the [1, 0, 0] document
\* first and the [0.8, 0.2, 0] document second.
SimilarityExample ==
    SimilarityExampleCase
        => /\ last.status = "ok"
           /\ last.result = <<documents[1], documents[3]>>

SimilarityExampleWitness == SimilarityExampleCase /\ last.status = "ok"

\* C8: empty-add no-op.  add with an empty collection returns without error,
\* leaves the in-memory sequence as it was and does not write the file: its
\* content is unchanged, and a file that did not exist is not created.
EmptyAddNoOp ==
    [][(last'.op = "add" /\ last'.batch = <<>>)
            => /\ last'.status = "ok"
               /\ ~last'.wrote
               /\ documents' = documents
               /\ file' = file]_vars

\* an empty add has returned on a store that never had a file
EmptyAddNoOpWitness ==
    /\ last.op = "add"
    /\ last.batch = <<>>
    /\ last.status = "ok"
    /\ ~file.exists

\* every document held in memory and every document of the file has an
\* embedding of length vector_dimension
AllOfDimension ==
    /\ \A i \in 1..Len(documents) : ~WrongLength(documents[i], vector_dimension)
    /\ \A i \in 1..Len(file.payload.documents) :
            ~WrongLength(file.payload.documents[i], vector_dimension)

\* C15 as stated: dimension invariant.  In every reachable state of a store,
\* also right after construction on a file written by a store of another
\* dimension, every document in memory and in the file has an embedding of
\* length vector_dimension.
DimensionInvariantAsStated == AllOfDimension

\* C15, amended: every operation on a store, and every construction of a
\* store of the same dimension on its file, keeps the dimension invariant:
\* if every document in memory and in the file had an embedding of length
\* vector_dimension before, so it has after.  Construction with another
\* dimension on a file that holds documents is what breaks it.
DimensionInvariant ==
    [][(AllOfDimension /\ vector_dimension' = vector_dimension)
            => AllOfDimension']_vars

\* an add has succeeded on a store of dimension 2 that held a document, and
\* every embedding has length 2
DimensionInvariantWitness ==
    /\ last.op = "add"
    /\ last.status = "ok"
    /\ last.batch # <<>>
    /\ Len(documents) > Len(last.batch)
    /\ vector_dimension = Len(EShort)
    /\ AllOfDimension

\* C16: late failure on reopen.  On a store reopened with a dimension other
\* than the length of the embeddings of its file, no add of documents
\* succeeds and writes the wrong-length documents back, and no query
\* returns having compared the probe with a stored embedding of another
\* length: both fail with the dimension-mismatch error.
LateFailureOnReopen ==
    /\ (last.op = "add" /\ last.batch # <<>> /\ last.status = "ok")
            => AllOfDimension
    /\ (last.op = "query" /\ last.status = "ok")
            => \A i \in 1..Len(documents) :
                    Len(documents[i].embedding) = Len(last.probe)

IsPrefix(s, t) == Len(s) <= Len(t) /\ SubSeq(t, 1, Len(s)) = s

\* C17: append-only, no deduplication.  The document sequence before any
\* operation is a leading part of the sequence after it: no document is
\* removed, reordered or modified.  A successful add extends the sequence by
\* exactly the documents of its batch, in the caller's order, whatever their
\* document_ids: an id already stored or repeated in the batch gives one
\* more entry each time.
AppendOnly ==
    [][/\ IsPrefix(documents, documents')
       /\ (last'.op = "add" /\ last'.status = "ok")
            => documents' = documents \o last'.batch
       /\ (last'.op = "add" /\ last'.status # "ok") => documents' = documents
       /\ last'.op = "query" => documents' = documents]_vars

\* an add of two documents of one document_id has succeeded on a store that
\* held a document of that id: the store holds three entries of the id
AppendOnlyWitness ==
    /\ last.op = "add"
    /\ last.status = "ok"
    /\ Len(last.batch) = 2
    /\ Len(documents) = 3
    /\ \A i \in 1..3 : documents[i].document_id = last.batch[1].document_id
    /\ documents[1] # documents[3]

\* C18: single-writer hazard.  A successful add, of either instance, leaves
\* the file holding that instance's own in-memory sequence followed by the
\* batch, whatever the file held: the file keeps what it held only when the
\* instance's sequence was the file's content, and as long as the second
\* instance has added nothing the file holds every document of the first.
\* With two writers an add can so remove from the file a document the other
\* instance stored.
SingleWriterHazard ==
    [][/\ (last'.op = "add" /\ last'.status = "ok" /\ last'.batch # <<>>)
            => /\ Construct(file') = documents \o last'.batch
               /\ documents = Construct(file)
                    => Construct(file') = Construct(file) \o last'.batch
       /\ (last'.op = "other.add" /\ last'.status = "ok"
                /\ last'.batch # <<>>)
            => /\ Construct(file') = other \o last'.batch
               /\ other = Construct(file)
                    => Construct(file') = Construct(file) \o last'.batch
       /\ (other' = <<>> /\ file'.exists) => FileHoldsDocuments']_vars

\* a lost update: each instance has added a document, and the file holds
\* the second instance's document only
SingleWriterHazardWitness ==
    /\ last.op = "other.add"
    /\ last.status = "ok"
    /\ documents = <<DocA>>
    /\ other = <<DocB>>
    /\ Construct(file) = <<DocB>>

\* C21: query is read-only.  Whether it returns documents, returns none or
\* fails with the dimension-mismatch error, a query leaves the in-memory
\* sequence, content and order, and the file as they were; so what a new
\* store loads from the path, and what the next add of a document holds and
\* writes, are the same after the query as before it.
QueryReadOnly ==
    [][last'.op = "query"
        => /\ documents' = documents
           /\ file' = file
           /\ vector_dimension' = vector_dimension
           /\ Construct(file') = Construct(file)
           /\ \A doc \in Docs :
                add(documents', file', vector_dimension', <<doc>>)
                    = add(documents, file, vector_dimension, <<doc>>)]_vars

\* a query has returned the documents of a store in another order than they
\* are stored in, and the store and its file hold them as before
QueryReadOnlyWitness ==
    /\ last.op = "query"
    /\ last.status = "ok"
    /\ Len(last.result) = Len(documents)
    /\ Len(documents) >= 2
    /\ last.result # documents
    /\ FileHoldsDocuments

----------------------------------------------------------------------------
(* Properties of run *)

StoreAsAtStart == documents = at_start.documents /\ file = at_start.file

\* a run that returned, research having produced no snippets
ZeroSnippetRunReturned == output.status = "ok" /\ output.snippets = <<>>

\* C9 as stated: a run without snippets adds nothing to the store, returns no
\* similar documents whatever the store held, returns the fixed summary and
\* never invokes the summary adapter.
ZeroSnippetRunAsStated ==
    ZeroSnippetRunReturned
        => /\ StoreAsAtStart
           /\ output.similar_documents = <<>>
           /\ output.summary = Summary("fixed", NoFindings, <<>>)
           /\ "summarize" \notin Range(calls)

\* C9, amended: a run without snippets adds nothing to the store and never
\* invokes the summary adapter; when it returns, its summary is the fixed
\* one and its similar documents are what the store's query gives for the
\* query embedding over the documents held before the run: min(top_k, n) of
\* them, none when the store held none.
ZeroSnippetRun ==
    /\ (pc # "idle" /\ snippets = <<>>)
            => (StoreAsAtStart /\ "summarize" \notin Range(calls))
    /\ ZeroSnippetRunReturned
            => /\ StoreAsAtStart
               /\ "summarize" \notin Range(calls)
               /\ output.summary = Summary("fixed", NoFindings, <<>>)
               /\ last.op = "query"
               /\ output.similar_documents = last.result
               /\ Range(output.similar_documents) \subseteq Range(at_start.documents)
               /\ Len(output.similar_documents)
                    = Min(config.similarity_top_k, Len(at_start.documents))

\* a run without snippets has returned documents of earlier runs
ZeroSnippetRunWitness ==
    /\ ZeroSnippetRunReturned
    /\ output.similar_documents # <<>>

\* C10: a research text that is not JSON, or is JSON and not an array, makes
\* run fail with the malformed-response error before any embedding call and
\* any change of the store.
MalformedResearchOutput ==
    (calls # <<>> /\ at_start.text \in {"invalid", "null", "number", "string",
                                        "object"})
        => /\ pc = "idle"
           /\ output.status = "MalformedResponse"
           /\ calls = <<"research">>
           /\ StoreAsAtStart

\* the calls of a run in the order of its code, up to and including step
RunSteps ==
    <<"research", "embed_snippets", "add", "embed_query", "query",
      "build_summary">>

StepsUpTo(step) ==
    SubSeq(RunSteps, 1, CHOOSE i \in 1..Len(RunSteps) : RunSteps[i] = step)

\* the run has ended with an error raised at step
FailedAt(step) ==
    /\ pc = "idle"
    /\ output.status \notin {"none", "ok"}
    /\ output.step = step

\* C11: no partial success.  A run that stops at research, at the embedding
\* of the snippets or at add has ended with an error for its caller, has
\* made no later call, and has left the in-memory sequence and the file as
\* they were when it began; and a run goes on to add only with one embedding
\* per snippet, so a differing count of vectors is such a failure.
NoPartialSuccess ==
    /\ pc = "add" => Len(staged) = Len(snippets)
    /\ \A step \in {"research", "embed_snippets", "add"} :
        /\ (pc = "idle" /\ calls # <<>> /\ calls[Len(calls)] = step)
                => FailedAt(step)
        /\ FailedAt(step)
                => /\ calls = StepsUpTo(step)
                   /\ StoreAsAtStart
                   /\ output.snippets = <<>>
                   /\ output.similar_documents = <<>>
                   /\ output.summary.kind = "none"

\* add has rejected the second of two documents of a run, the first being
\* valid, on a store that held documents of an earlier run
NoPartialSuccessWitness ==
    /\ FailedAt("add")
    /\ output.status = "DimensionMismatch"
    /\ Len(last.batch) = 2
    /\ ~WrongLength(last.batch[1], vector_dimension)
    /\ WrongLength(last.batch[2], vector_dimension)
    /\ at_start.documents # <<>>

\* the calls a run has made when it is about to make the call of position pc
CallsBefore(position) ==
    CASE position = "embed" -> StepsUpTo("research")
      [] position = "add" -> StepsUpTo("embed_snippets")
      [] position = "embed_query" -> StepsUpTo("add")
      [] position = "query" -> StepsUpTo("embed_query")
      [] position = "summary" -> StepsUpTo("query")

\* C12: step ordering.  The calls of a run are a leading part of research,
\* embedding of the snippets, add, embedding of the query, query, summary
\* construction (which may call the summary generator), so each is made at
\* most once and none again after a later one; a run that is about to make
\* a call has made, and got back from, exactly the calls before it; and
\* every step of a run adds calls at the end of those made or begins a run.
StepOrdering ==
    [][/\ \/ \E n \in 0..Len(RunSteps) : calls' = SubSeq(RunSteps, 1, n)
          \/ calls' = RunSteps \o <<"summarize">>
       /\ pc' # "idle" => calls' = CallsBefore(pc')
       /\ \/ calls' \in {<<>>, <<"research">>} /\ pc = "idle"
          \/ /\ pc # "idle"
             /\ Len(calls') > Len(calls)
             /\ SubSeq(calls', 1, Len(calls)) = calls]_vars

\* a run has made all its calls, the summary generator's included, and
\* returned
StepOrderingWitness ==
    /\ pc = "idle"
    /\ output.status = "ok"
    /\ calls = RunSteps \o <<"summarize">>

\* a run that returned, research having produced snippets
EndToEndRunReturned ==
    pc = "idle" /\ output.status = "ok" /\ output.snippets # <<>>

\* doc is the document of snippet: its id the url, or the title when there
\* is no url, its text the content, its metadata title, url and summary
DocumentOf(doc, snippet) ==
    /\ doc.document_id = (IF snippet.url = "" THEN snippet.title ELSE snippet.url)
    /\ doc.text = snippet.content
    /\ doc.metadata = {<<"title", snippet.title>>, <<"url", snippet.url>>,
                       <<"summary", snippet.summary>>}
    /\ Len(doc.embedding) = vector_dimension

\* what holds once a run with snippets has returned
EndToEndRunResult ==
    LET before == Len(at_start.documents)
        n == Len(output.snippets)
    IN /\ Len(documents) = before + n
       /\ SubSeq(documents, 1, before) = at_start.documents
       /\ \A i \in 1..n : DocumentOf(documents[before + i], output.snippets[i])
       /\ FileHoldsDocuments
       /\ last.op = "query"
       /\ output.similar_documents = last.result
       /\ Len(output.similar_documents)
            = Min(config.similarity_top_k, Len(documents))
       /\ RankedPrefix(output.similar_documents, documents, last.probe)
       /\ output.summary =
            IF config.summary_generator
            THEN Summary("generator", "final summary", <<>>)
            ELSE Summary("joined", "",
                         [i \in 1..n |->
                            <<output.snippets[i].title,
                              IF output.snippets[i].summary = ""
                              THEN output.snippets[i].content
                              ELSE output.snippets[i].summary>>])

\* C13: end-to-end run.  A run keeps the snippets research returned as they
\* are and returns them; when a run with n >= 1 snippets returns, the store
\* holds the documents it held before followed by one document per snippet,
\* in snippet order, and so does the file; similar_documents is what the
\* query gave over the store after the append, min(top_k, store size)
\* documents ranked most similar first; the summary is the summary
\* generator's output when one is configured and the snippets' bullet lines
\* otherwise.
EndToEndRun ==
    [][/\ (pc # "idle" /\ pc' # "idle") => snippets' = snippets
       /\ (pc # "idle" /\ snippets # <<>> /\ pc' = "idle"
                /\ output'.status = "ok")
            => (output'.snippets = snippets /\ EndToEndRunResult')]_vars

\* a run with two snippets has returned, on a store that held documents,
\* with joined bullet lines and a document it stored among the similar ones
EndToEndRunWitness ==
    /\ EndToEndRunReturned
    /\ Len(output.snippets) = 2
    /\ at_start.documents # <<>>
    /\ ~config.summary_generator
    /\ Len(output.similar_documents) = 2
    /\ \E i \in 1..2 :
            output.similar_documents[i] \notin Range(at_start.documents)

----------------------------------------------------------------------------
(* Properties of the similarity *)

IsZero(embedding) == \A i \in 1..Len(embedding) : embedding[i] = 0

\* C14: zero-norm handling.  A query with a probe of the right dimension
\* returns without error whichever of the probe and the stored embeddings
\* are all-zero; no similarity it computes divides by zero, and the
\* similarity of a pair with an all-zero member is exactly 0, so that an
\* all-zero probe leaves the documents in insertion order.
ZeroNormHandling ==
    (last.op = "query" /\ documents # <<>>
            /\ Len(last.probe) = vector_dimension)
        => /\ last.status = "ok"
           /\ \A i \in 1..Len(documents) :
                LET s == _cosine_similarity(documents[i].embedding, last.probe)
                IN /\ s.den2 > 0
                   /\ (IsZero(documents[i].embedding) \/ IsZero(last.probe))
                        => s.num = 0
           /\ IsZero(last.probe) => last.result = Slice(documents, last.top_k)

\* queries have returned with an all-zero probe on a store that holds an
\* all-zero and a non-zero embedding
ZeroNormHandlingWitness ==
    /\ last.op = "query"
    /\ last.status = "ok"
    /\ IsZero(last.probe)
    /\ \E i, j \in 1..Len(documents) :
            IsZero(documents[i].embedding) /\ ~IsZero(documents[j].embedding)
    /\ Len(last.result) >= 2

\* a query with a probe of non-zero norm and of the store's dimension has
\* returned
NonZeroProbeQuery ==
    /\ last.op = "query"
    /\ last.status = "ok"
    /\ Len(last.probe) = vector_dimension
    /\ ~IsZero(last.probe)

\* the sign of the cosine similarity of a stored embedding of non-zero norm
\* to the probe of the last query
CosineSign(embedding) ==
    LET dot == Dot(embedding, last.probe)
    IN IF dot > 0 THEN 1 ELSE IF dot < 0 THEN 0 - 1 ELSE 0

\* the positions of seq whose document has an all-zero embedding
ZeroAt(seq) == {i \in 1..Len(seq) : IsZero(seq[i].embedding)}

\* the positions of seq whose document has non-zero norm and a cosine
\* similarity to the probe of the given sign
SignAt(seq, sign) ==
    {i \in 1..Len(seq) :
        ~IsZero(seq[i].embedding) /\ CosineSign(seq[i].embedding) = sign}

\* C19 as stated: for a probe of non-zero norm, query never ranks a stored
\* document of all-zero embedding ahead of one of non-zero norm, neither
\* among the documents returned nor by returning it and leaving the other
\* out, whatever the sign of the other's cosine similarity.
ZeroNormRankedLastAsStated ==
    NonZeroProbeQuery
        => /\ \A i \in ZeroAt(last.result) :
                \A j \in 1..Len(last.result) :
                    ~IsZero(last.result[j].embedding) => j < i
           /\ ZeroAt(last.result) # {}
                => \A m \in 1..Len(documents) :
                        ~IsZero(documents[m].embedding)
                            => documents[m] \in Range(last.result)

\* C19, amended: for a probe of non-zero norm a stored document of all-zero
\* embedding ranks as its similarity 0 does: after every document of
\* positive cosine similarity, and ahead of every document of negative
\* cosine similarity.
ZeroNormRankedAsZero ==
    NonZeroProbeQuery
        => /\ \A i \in ZeroAt(last.result) :
                /\ \A j \in SignAt(last.result, 1) : j < i
                /\ \A j \in SignAt(last.result, 0 - 1) : i < j
           /\ ZeroAt(last.result) # {}
                => Cardinality(SignAt(last.result, 1))
                        = Cardinality(SignAt(documents, 1))
           /\ SignAt(last.result, 0 - 1) # {}
                => Cardinality(ZeroAt(last.result))
                        = Cardinality(ZeroAt(documents))

\* a query with probe [1, 0, 0] has returned the [1, 0, 0] document, then
\* the all-zero one, then the [-1, 0, 0] one, which was stored first
ZeroNormRankedAsZeroWitness ==
    /\ NonZeroProbeQuery
    /\ documents = <<DocN, DocZ, DocA>>
    /\ last.result = <<DocA, DocZ, DocN>>

\* the positions of a run after its add
AfterAdd == {"embed_query", "query", "summary"}

\* the store holds what it held when the run began, followed by one
\* document per snippet of the run, and the file holds them
AppendedByRun ==
    LET before == Len(at_start.documents)
    IN /\ Len(documents) = before + Len(snippets)
       /\ SubSeq(documents, 1, before) = at_start.documents
       /\ \A i \in 1..Len(snippets) :
                DocumentOf(documents[before + i], snippets[i])
       /\ snippets # <<>> => FileHoldsDocuments

\* the last n documents held before the run and the n documents after them
\* are the same but for their embeddings
AppendedTwice(n) ==
    LET before == Len(at_start.documents)
    IN /\ before >= n
       /\ Len(documents) = before + n
       /\ \A i \in 1..n :
            /\ documents[before + i].document_id
                    = documents[before - n + i].document_id
            /\ documents[before + i].text = documents[before - n + i].text
            /\ documents[before + i].metadata
                    = documents[before - n + i].metadata

\* a retry past its add has appended the documents of its snippets again
RetryAppendedTwice == AppendedTwice(Len(snippets))

\* C20: a run that fails after its add, while embedding the query, querying
\* the store or building the summary, leaves in the store and in the file
\* the documents of its snippets, which add appended; a retry of the run
\* with the same research result appends documents of the same
\* document_id, text and metadata once more, after the first ones.
LateFailureKeepsDocuments ==
    [][/\ pc' \in AfterAdd => AppendedByRun'
       /\ (pc \in AfterAdd /\ pc' = "idle" /\ output'.status # "ok")
            => /\ documents' = documents
               /\ file' = file
               /\ \E step \in AfterAdd : FailedAt(step)'
       /\ (pc' \in AfterAdd /\ at_start'.retry)
            => RetryAppendedTwice']_vars

\* a retry of a run that failed after its add has returned: the store holds
\* the documents of the snippets twice
LateFailureKeepsDocumentsWitness ==
    /\ at_start.retry
    /\ pc = "idle"
    /\ output.status = "ok"
    /\ output.snippets # <<>>
    /\ AppendedTwice(Len(output.snippets))

====
